---- MODULE Spec2Model ----
(***************************************************************************)
(* Model of the live capture/analysis loop of App (src/types.ts) and of    *)
(* the macro playback of MacroView (src/components/MacroView.tsx).         *)
(*                                                                         *)
(* React state is a variable; a ref is a variable read at the moment of    *)
(* use; a value a callback closed over at render time is carried in the    *)
(* record of the pending callback (field cl).  A handler runs to its next  *)
(* await as one action, and the re-render that follows it is part of that  *)
(* action (isAutoPilotRef is synchronised at its end).  A state setter     *)
(* takes effect at once, and an updater passed to a setter sees the latest *)
(* value.  The effects of MacroView are actions of their own, which run    *)
(* before any other handler.  Waits are untimed: pending callbacks fire in *)
(* any order, except where the code gives them the same delay.             *)
(***************************************************************************)
EXTENDS Integers, Sequences, FiniteSets, Bags, TLC

VARIABLES
  mode,            \* App state `mode`: "UPLOAD" | "LIVE_VISION" | "SCREEN_SHARE"
  isLive,          \* isLiveRef.current
  isAutoPilot,     \* App state `isAutoPilot`
  isAutoPilotRef,  \* isAutoPilotRef.current
  isAnalyzing,     \* App state `isAnalyzing`
  retryTimer,      \* App state `retryTimer` (seconds)
  error,           \* App state `error`: "none" or the kind of message shown
  result,          \* App state `result`: [present, macroSequence]
  momentum,        \* App state `momentum`, in tenths (10 = 1.0)
  timers,          \* pending window.setTimeout callbacks of captureAndAnalyze
  timerRef,        \* timerRef.current: a timer id, 0 for null
  intervals,       \* ids of the active window.setInterval retry countdowns
  retryIntervalRef,\* retryIntervalRef.current: an interval id, 0 for null
  cycles,          \* captureAndAnalyze calls suspended in the 200 ms settle wait
  analyses,        \* triggerAnalysis calls suspended in analyzeGameState
  starts,          \* startLiveAnalysis calls suspended in getUserMedia/getDisplayMedia
  uploads,         \* handleFileUpload calls suspended in fileToGenerativePart
  streamHeld,      \* videoRef.current.srcObject is a stream
  cursorState,     \* App state `cursorState`
  seqDirty,        \* `result.macroSequence` changed since MacroView last saw it
  inv,             \* what the last handler did (observation): whether it called
                   \* captureAndAnalyze or stopLiveAnalysis, and with what outcome
  currentStepIndex,\* MacroView state `currentStepIndex`
  isLocallyPlaying,\* MacroView state `isLocallyPlaying`
  isPlayingRef,    \* isPlayingRef.current
  loopPos,         \* where the playLoop of the mounted playback effect stands:
                   \* "idle" | "anim" | "fallback" | "pause"
  effDeps,         \* the dependencies the playback effect last ran with
  anims,           \* the animateSingleStep calls in progress (a bag)
  uninterrupted,   \* no control, command or upload since the sequence arrived,
                   \* and no animation was in progress when it arrived
  played,          \* what the last playback step did (observation)
  userProfiles,    \* the profiles stored under PROFILES_KEY in localStorage
  saved,           \* the profile the last store operation saved (observation)
  logs,            \* the training logs stored under LOGS_KEY, oldest first
  errorLogs        \* the error logs stored under ERRORS_KEY, oldest first

appVars == <<mode, isLive, isAutoPilot, isAutoPilotRef, isAnalyzing, retryTimer,
             error, result, momentum, timers, timerRef, intervals,
             retryIntervalRef, cycles, analyses, starts, uploads, streamHeld,
             cursorState, seqDirty, inv>>

\* The variables of MacroView and of the step animations.
viewVars == <<currentStepIndex, isLocallyPlaying, isPlayingRef, loopPos, effDeps,
              anims>>

\* The log stores.  The store specifications follow their contents; the
\* other specifications note only whether a record was written (inv.logged).
logVars == <<logs, errorLogs>>

\* The profile store and the log stores.
storeVars == <<userProfiles, saved, logVars>>

\* What the handlers of App that drive the live loop leave alone.
playVars == <<viewVars, uninterrupted, played, storeVars>>

\* What the playback leaves alone in App and in the profile store.
schedVars == <<mode, isLive, isAutoPilot, isAutoPilotRef, isAnalyzing, retryTimer,
               error, result, timers, timerRef, intervals, retryIntervalRef,
               cycles, analyses, starts, uploads, streamHeld, inv, storeVars>>

----------------------------------------------------------------------------
(* Bounds of the model *)

MaxTimers == 2      \* pending capture timers
MaxIntervals == 1   \* active retry countdown intervals
MaxCycles == 2      \* capture cycles in their settle wait
MaxAnalyses == 1    \* analysis calls in flight
MaxStarts == 1      \* start attempts waiting for the capture source
MaxUploads == 1     \* uploads waiting for the file to be read
MaxFragments == 2   \* fragments of a failure message
MaxLogs == 53       \* records ever written to one log store
MaxAnims == 2       \* step animations in progress at once

(* Program constants *)

StandardDelay == 3000
RateLimitDelay == 25000
SafetyDelay == 5000
NetworkDelay == 8000
OtherDelay == 5000
StandbyDelay == 1000
CaptureRetryDelay == 500
SettleDelay == 200
MomentumCap == 20
DefaultSwipeMs == 500
MomentumStart == 10

Max(a, b) == IF a >= b THEN a ELSE b
Min(a, b) == IF a <= b THEN a ELSE b

----------------------------------------------------------------------------
(* Error classification: the catch block of triggerAnalysis *)

\* A text is a sequence of fragments (words); includes() of a token is the
\* presence of a fragment spelled exactly like the token, letter case included.
Includes(msg, tok) == \E i \in 1..Len(msg) : msg[i] = tok

\* A rejection value of analyzeGameState: a string, an Error or any other
\* object.  `json` tells whether its text (the string, the Error's message,
\* the JSON.stringify of the object) is a JSON object; then `message` is the
\* value of its error.message (empty when it has none) and `rest` the text
\* of its other fields; otherwise `message` is the text itself.  `stack` is
\* the stack of an Error (empty when it has none).
Failure(kind, json, message, rest, stack) ==
  [kind |-> kind, json |-> json, message |-> message, rest |-> rest, stack |-> stack]

NoFailure == Failure("none", FALSE, <<>>, <<>>, <<>>)

\* The text first assigned to technicalMessage: the string, the Error's
\* message followed by its stack, or the serialised object.
RawText(e) ==
  (IF e.json THEN e.message \o e.rest ELSE e.message) \o e.stack

\* JSON.parse(technicalMessage) succeeds when the text starts with `{` and
\* is a JSON object and nothing else: not when a stack follows it.
Parses(e) == e.json /\ e.stack = <<>>

\* The message extracted from the value e analyzeGameState rejected with:
\* the text above, replaced by error.message when the text parses as a JSON
\* object that has a non-empty one.
TechnicalMessage(e) ==
  IF Parses(e) /\ e.message # <<>> THEN e.message ELSE RawText(e)

IsRateLimit(msg) ==
  Includes(msg, "429") \/ Includes(msg, "quota") \/ Includes(msg, "RESOURCE_EXHAUSTED")

IsSafety(msg) == Includes(msg, "SAFETY") \/ Includes(msg, "harmful")

IsNetwork(msg) == Includes(msg, "fetch") \/ Includes(msg, "network")

\* The classification with the safety test ahead of the rate-limit test.
CategorySafetyFirst(msg) ==
  IF IsSafety(msg) THEN "Safety"
  ELSE IF IsRateLimit(msg) THEN "RateLimit"
  ELSE IF IsNetwork(msg) THEN "Network"
  ELSE "Other"

Category(msg) ==
  IF IsRateLimit(msg) THEN "RateLimit"
  ELSE IF IsSafety(msg) THEN "Safety"
  ELSE IF IsNetwork(msg) THEN "Network"
  ELSE "Other"

NextDelayOf(msg) ==
  IF IsRateLimit(msg) THEN RateLimitDelay
  ELSE IF IsSafety(msg) THEN SafetyDelay
  ELSE IF IsNetwork(msg) THEN NetworkDelay
  ELSE OtherDelay

----------------------------------------------------------------------------
(* Handles *)

\* The pending timers are kept in the order they were armed and a handle is
\* the position of its timer in that order: 0 is null, Gone is the handle
\* of a timer that has fired or was cleared.
Gone == -1

RemoveAt(seq, i) == SubSeq(seq, 1, i - 1) \o SubSeq(seq, i + 1, Len(seq))

\* The handle ref after the timer at position i left the order.
ShiftRef(ref, i) == IF ref = i THEN Gone ELSE IF ref > i THEN ref - 1 ELSE ref

\* clearTimeout(ref) / clearInterval(ref): no effect on null or Gone.
Cleared(seq, ref) == IF ref >= 1 THEN RemoveAt(seq, ref) ELSE seq

\* The values of `isAnalyzing` and `retryTimer` a callback created by the
\* current render closes over.
Closure == [isAnalyzing |-> isAnalyzing, retryTimer |-> retryTimer]

NoInv == [op |-> "none", by |-> "none", live |-> FALSE, pilot |-> FALSE,
          busy |-> FALSE, retry |-> 0, armed |-> 0, captured |-> FALSE,
          logged |-> FALSE, raw |-> NoFailure, message |-> <<>>,
          category |-> "none", nextDelay |-> 0]

Stopped == [NoInv EXCEPT !.op = "stopLiveAnalysis"]

NoResult == [present |-> FALSE, macroSequence |-> <<>>]

----------------------------------------------------------------------------
(* Steps and sequences *)

NoPoint == [x |-> -1, y |-> -1]
HasPoint(p) == p # NoPoint

MkStep(type, coordinates, endCoordinates, durationMs) ==
  [type |-> type, coordinates |-> coordinates,
   endCoordinates |-> endCoordinates, durationMs |-> durationMs]

Point(x, y) == [x |-> x, y |-> y]

TapStep == MkStep("TAP", Point(300, 700), NoPoint, 0)
TapOther == MkStep("TAP", Point(600, 200), NoPoint, 0)
WaitStep == MkStep("WAIT", NoPoint, NoPoint, 40)
NoStep == MkStep("none", NoPoint, NoPoint, 0)

SwipeTypes == {"SWIPE", "HUMAN_SWIPE", "DRAG"}

\* The sequences an analysis may deliver in the scheduler specification.
SchedSequences == {<<>>, <<TapStep>>}

\* The sequences an analysis may deliver in the playback specification.
PlaySequences == {<<>>, <<TapStep, TapOther>>, <<WaitStep>>}

\* Steps that lack coordinates their kind requires.
TapNoPoint == MkStep("TAP", NoPoint, NoPoint, 0)
SwipeNoEnd == MkStep("SWIPE", Point(300, 700), NoPoint, 0)
DragNoStart == MkStep("DRAG", NoPoint, Point(600, 200), 0)
HumanSwipeNoPoints == MkStep("HUMAN_SWIPE", NoPoint, NoPoint, 0)

\* The sequences an analysis may deliver in the loop specification.
LoopSequences ==
  {<<TapNoPoint, TapOther>>, <<SwipeNoEnd, DragNoStart, HumanSwipeNoPoints>>}

\* A swipe with both points and the default duration.
SwipeStep == MkStep("SWIPE", Point(0, 0), Point(1000, 1000), 0)

\* The sequences an analysis may deliver in the cancel specification.
CancelSequences == {<<SwipeStep, WaitStep>>}

\* The ends of the swipes of the swipe specification.
SwipePoints == {Point(0, 0), Point(1000, 1000), Point(200, 600)}

\* The sequences of the swipe specification: one swipe of any kind between
\* any two of the points, with durationMs absent (0) or 1000.
SwipeSequences ==
  {<<MkStep(t, a, b, d)>> : t \in SwipeTypes, a \in SwipePoints, b \in SwipePoints,
                            d \in {0, 1000}}

\* The timestamps, in ms after the start of a swipe, at which its
\* requestAnimationFrame callbacks may run.
FrameTimes == {250, 500, 750, 1000, 1250}

\* Exact fractions in lowest terms (d > 0): the coordinates of the cursor.
RECURSIVE Gcd(_, _)
Gcd(a, b) == IF b = 0 THEN a ELSE Gcd(b, a % b)

Frac(n, d) ==
  LET g == Gcd(IF n < 0 THEN -n ELSE n, d)
  IN [n |-> n \div g, d |-> d \div g]

Whole(n) == [n |-> n, d |-> 1]

\* The words a failure text is made of: the tokens the classification looks
\* for, some of them in another letter case, and a word it does not know.
Fragments == {"429", "quota", "RESOURCE_EXHAUSTED", "SAFETY", "harmful", "fetch",
              "network", "Quota", "safety", "NETWORK", "weird"}

\* The texts of at most n fragments.
Texts(n) == UNION {[1..k -> Fragments] : k \in 0..n}

\* Every rejection value: a string, an Error with or without a stack, an
\* object payload; the text of each a JSON object (with or without
\* error.message) or not; and a value that has no JSON text.
RawFailures ==
  {Failure("string", FALSE, m, <<>>, <<>>) : m \in Texts(MaxFragments)}
  \cup {Failure("string", TRUE, m, r, <<>>) : m \in Texts(MaxFragments), r \in Texts(1)}
  \cup {Failure("Error", FALSE, m, <<>>, st) : m \in Texts(MaxFragments), st \in Texts(1)}
  \cup {Failure("Error", TRUE, m, r, st) : m \in Texts(MaxFragments), r \in Texts(1),
                                          st \in Texts(1)}
  \cup {Failure("object", TRUE, m, r, <<>>) : m \in Texts(MaxFragments), r \in Texts(1)}
  \cup {Failure("opaque", FALSE, <<>>, <<>>, <<>>)}

\* The rejections analyzeGameState may produce in the scheduler specification.
SchedFailures ==
  {Failure("string", FALSE, <<"Error", "429", "RESOURCE_EXHAUSTED">>, <<>>, <<>>),
   Failure("object", TRUE, <<"SAFETY">>, <<>>, <<>>),
   Failure("Error", FALSE, <<"TypeError", "fetch", "failed">>, <<>>, <<>>),
   Failure("string", FALSE, <<"weird", "stuff">>, <<>>, <<>>)}

InitCursor == [x |-> Whole(500), y |-> Whole(500), isDown |-> FALSE, type |-> "IDLE",
               isVisible |-> FALSE, precisionMode |-> FALSE]

----------------------------------------------------------------------------
(* Initial state: App() after its first render *)

InitApp ==
  /\ mode = "UPLOAD"
  /\ isLive = FALSE
  /\ isAutoPilot = TRUE
  /\ isAutoPilotRef = TRUE
  /\ isAnalyzing = FALSE
  /\ retryTimer = 0
  /\ error = "none"
  /\ result = NoResult
  /\ momentum = MomentumStart
  /\ timers = <<>>
  /\ timerRef = 0
  /\ intervals = <<>>
  /\ retryIntervalRef = 0
  /\ cycles = <<>>
  /\ analyses = <<>>
  /\ starts = <<>>
  /\ uploads = <<>>
  /\ streamHeld = FALSE
  /\ cursorState = InitCursor
  /\ seqDirty = FALSE
  /\ inv = NoInv

----------------------------------------------------------------------------
(* stopLiveAnalysis: the values it leaves *)

\* clearTimeout(timerRef.current) cancels the one timer the ref designates.
StoppedTimers == Cleared(timers, timerRef)

\* clearInterval(retryIntervalRef.current)
StoppedIntervals == Cleared(intervals, retryIntervalRef)

HiddenCursor == [cursorState EXCEPT !.isVisible = FALSE]

\* window.setTimeout(captureAndAnalyze, delay) assigned to timerRef.current:
\* the previous handle is overwritten, not cleared.  The delay asked for is
\* noted in the observation seen.
ArmTimer(tms, delay, cl, seen) ==
  /\ Len(tms) < MaxTimers
  /\ timers' = Append(tms, [cl |-> cl])
  /\ timerRef' = Len(tms) + 1
  /\ inv' = [seen EXCEPT !.armed = delay]

\* captureFrame(): a frame is there only when the video element shows a
\* stream, and then only if it already has dimensions.
FrameOutcomes(held) == IF held THEN {TRUE, FALSE} ELSE {FALSE}

\* captureAndAnalyze with the standby branch removed: a disabled pilot is
\* treated like a disabled live mode (return without re-arming).
CaptureAndAnalyzeNoStandby(cl, tms, ref, held, by) ==
  LET seen == [NoInv EXCEPT !.op = "captureAndAnalyze", !.by = by, !.live = isLive,
                            !.pilot = isAutoPilotRef, !.busy = cl.isAnalyzing,
                            !.retry = cl.retryTimer]
  IN
  IF ~isLive \/ cl.isAnalyzing \/ cl.retryTimer > 0 \/ ~isAutoPilotRef
  THEN /\ timers' = tms
       /\ timerRef' = ref
       /\ cycles' = cycles
       /\ inv' = seen
  ELSE /\ Len(cycles) < MaxCycles
       /\ \E frameA \in FrameOutcomes(held) :
            cycles' = Append(cycles, [cl |-> cl, frameA |-> frameA])
       /\ timers' = tms
       /\ timerRef' = ref
       /\ inv' = [seen EXCEPT !.captured = TRUE]

\* captureAndAnalyze up to its settle wait, called by a callback that closed
\* over cl, with tms/ref the timers and timerRef.current at the call,
\* held whether the video element shows a stream and by the caller ("timer",
\* "start" or "voice").
CaptureAndAnalyze(cl, tms, ref, held, by) ==
  LET seen == [NoInv EXCEPT !.op = "captureAndAnalyze", !.by = by, !.live = isLive,
                            !.pilot = isAutoPilotRef, !.busy = cl.isAnalyzing,
                            !.retry = cl.retryTimer]
  IN
  IF ~isLive \/ cl.isAnalyzing \/ cl.retryTimer > 0
  THEN /\ timers' = tms
       /\ timerRef' = ref
       /\ cycles' = cycles
       /\ inv' = seen
  ELSE IF ~isAutoPilotRef
  THEN /\ ArmTimer(tms, StandbyDelay, cl, seen)
       /\ cycles' = cycles
  ELSE /\ Len(cycles) < MaxCycles
       /\ \E frameA \in FrameOutcomes(held) :
            cycles' = Append(cycles, [cl |-> cl, frameA |-> frameA])
       /\ timers' = tms
       /\ timerRef' = ref
       /\ inv' = [seen EXCEPT !.captured = TRUE]

----------------------------------------------------------------------------
(* triggerAnalysis *)

\* triggerAnalysis up to `await analyzeGameState(...)`.  clearInterval does
\* not reset retryIntervalRef.current, which keeps the cleared handle.
TriggerAnalysis(cl, images) ==
  /\ Len(analyses) < MaxAnalyses
  /\ isAnalyzing' = TRUE
  /\ retryTimer' = 0
  /\ momentum' = MomentumStart
  /\ intervals' = StoppedIntervals
  /\ retryIntervalRef' = IF retryIntervalRef >= 1 THEN Gone ELSE retryIntervalRef
  /\ analyses' = Append(analyses, [cl |-> cl, images |-> images])

\* The `finally` block: the next cycle is armed only in live mode with the
\* auto-pilot on; otherwise nothing is armed.
Reschedule(cl, nextDelay, seen) ==
  LET at == [seen EXCEPT !.live = isLive, !.pilot = isAutoPilotRef]
  IN IF isLive /\ isAutoPilotRef
     THEN ArmTimer(timers, nextDelay, cl, at)
     ELSE /\ inv' = at
          /\ UNCHANGED <<timers, timerRef>>

\* analyzeGameState resolved with an AnalysisResult carrying macroSequence seq.
AnalysisSucceed(i, seq) ==
  /\ i \in 1..Len(analyses)
  /\ analyses' = RemoveAt(analyses, i)
  /\ result' = [present |-> TRUE, macroSequence |-> seq]
  /\ seqDirty' = TRUE
  /\ error' = "none"
  /\ isAnalyzing' = FALSE
  /\ Reschedule(analyses[i].cl, StandardDelay, [NoInv EXCEPT !.op = "triggerAnalysis"])
  /\ UNCHANGED <<mode, isLive, isAutoPilot, isAutoPilotRef, retryTimer, momentum,
                 intervals, retryIntervalRef, cycles, starts, uploads, streamHeld,
                 cursorState>>

\* A rejection value the catch block cannot turn into text: JSON.stringify
\* throws for it (a circular object, a BigInt) or returns undefined (undefined,
\* a function, a symbol), and then technicalMessage.includes throws.
Opaque(e) == e.kind = "opaque"

\* analyzeGameState rejected with e: the catch block and the finally block.
\* The countdown is started for a rate limit only.  For an opaque e the catch
\* block raises before it classifies: nothing is logged, no error is shown,
\* nextDelay keeps its initial value, and the finally block still runs.
AnalysisFail(i, e) ==
  LET msg == TechnicalMessage(e) IN
  /\ i \in 1..Len(analyses)
  /\ analyses' = RemoveAt(analyses, i)
  /\ IF Opaque(e)
     THEN UNCHANGED <<error, retryTimer, intervals, retryIntervalRef>>
     ELSE IF IsRateLimit(msg)
     THEN /\ Len(intervals) < MaxIntervals
          /\ error' = "none"
          /\ retryTimer' = NextDelayOf(msg) \div 1000
          /\ intervals' = Append(intervals, "countdown")
          /\ retryIntervalRef' = Len(intervals) + 1
     ELSE /\ error' = Category(msg)
          /\ UNCHANGED <<retryTimer, intervals, retryIntervalRef>>
  /\ isAnalyzing' = FALSE
  /\ IF Opaque(e)
     THEN Reschedule(analyses[i].cl, StandardDelay,
                     [NoInv EXCEPT !.op = "catchRaised", !.raw = e,
                                   !.nextDelay = StandardDelay])
     ELSE Reschedule(analyses[i].cl, NextDelayOf(msg),
                     [NoInv EXCEPT !.op = "catch", !.logged = TRUE, !.raw = e,
                                   !.message = msg,
                                   !.category = Category(msg),
                                   !.nextDelay = NextDelayOf(msg)])
  /\ UNCHANGED <<mode, isLive, isAutoPilot, isAutoPilotRef, result, seqDirty,
                 momentum, cycles, starts, uploads, streamHeld, cursorState>>

\* What localStorage.setItem and JSON.parse throw in saveLog and
\* saveErrorLog: a QuotaExceededError when the storage is full, a
\* SyntaxError when the stored text is not JSON.
StoreFailures ==
  {Failure("Error", FALSE, <<"QuotaExceededError", "exceeded", "the", "quota">>, <<>>, <<>>),
   Failure("Error", FALSE, <<"SyntaxError", "Unexpected", "token">>, <<>>, <<>>)}

\* analyzeGameState resolved with macroSequence seq and saveLog then threw e
\* inside the try block: the result is set, and e is handled by the catch
\* block as a failure of the analysis would be.
AnalysisLogFails(i, seq, e) ==
  LET msg == TechnicalMessage(e) IN
  /\ i \in 1..Len(analyses)
  /\ analyses' = RemoveAt(analyses, i)
  /\ result' = [present |-> TRUE, macroSequence |-> seq]
  /\ seqDirty' = TRUE
  /\ IF IsRateLimit(msg)
     THEN /\ Len(intervals) < MaxIntervals
          /\ error' = "none"
          /\ retryTimer' = NextDelayOf(msg) \div 1000
          /\ intervals' = Append(intervals, "countdown")
          /\ retryIntervalRef' = Len(intervals) + 1
     ELSE /\ error' = Category(msg)
          /\ UNCHANGED <<retryTimer, intervals, retryIntervalRef>>
  /\ isAnalyzing' = FALSE
  /\ Reschedule(analyses[i].cl, NextDelayOf(msg),
                [NoInv EXCEPT !.op = "saveLogFailed", !.logged = TRUE, !.raw = e,
                              !.message = msg,
                              !.category = Category(msg),
                              !.nextDelay = NextDelayOf(msg)])
  /\ UNCHANGED <<mode, isLive, isAutoPilot, isAutoPilotRef, momentum, cycles,
                 starts, uploads, streamHeld, cursorState>>

\* analyzeGameState rejected with e and saveErrorLog then threw inside the
\* catch block, after the classification and before the error is shown:
\* the finally block still runs, with the delay of the category.
AnalysisFailUnlogged(i, e) ==
  LET msg == TechnicalMessage(e) IN
  /\ i \in 1..Len(analyses)
  /\ ~Opaque(e)
  /\ analyses' = RemoveAt(analyses, i)
  /\ isAnalyzing' = FALSE
  /\ Reschedule(analyses[i].cl, NextDelayOf(msg),
                [NoInv EXCEPT !.op = "saveErrorLogFailed", !.raw = e,
                              !.message = msg,
                              !.category = Category(msg),
                              !.nextDelay = NextDelayOf(msg)])
  /\ UNCHANGED <<mode, isLive, isAutoPilot, isAutoPilotRef, result, seqDirty,
                 momentum, cycles, starts, uploads, streamHeld, cursorState,
                 error, retryTimer, intervals, retryIntervalRef>>

\* One firing of the retry countdown interval.
IntervalTick(i) ==
  /\ i \in 1..Len(intervals)
  /\ retryTimer' = Max(0, retryTimer - 1)
  /\ inv' = NoInv
  /\ UNCHANGED <<mode, isLive, isAutoPilot, isAutoPilotRef, isAnalyzing, error,
                 result, seqDirty, momentum, timers, timerRef, intervals,
                 retryIntervalRef, cycles, analyses, starts, uploads, streamHeld,
                 cursorState>>

----------------------------------------------------------------------------
(* The capture loop *)

\* The timer callback reading the current `isAnalyzing` and `retryTimer`
\* instead of the values it closed over.
TimerFireCurrentState(i) ==
  /\ i \in 1..Len(timers)
  /\ CaptureAndAnalyze(Closure, RemoveAt(timers, i), ShiftRef(timerRef, i),
                       streamHeld, "timer")
  /\ UNCHANGED <<mode, isLive, isAutoPilot, isAutoPilotRef, isAnalyzing, retryTimer,
                 error, result, seqDirty, momentum, intervals, retryIntervalRef,
                 analyses, starts, uploads, streamHeld, cursorState>>

\* A pending setTimeout callback of captureAndAnalyze fires.
TimerFire(i) ==
  /\ i \in 1..Len(timers)
  /\ CaptureAndAnalyze(timers[i].cl, RemoveAt(timers, i), ShiftRef(timerRef, i),
                       streamHeld, "timer")
  /\ UNCHANGED <<mode, isLive, isAutoPilot, isAutoPilotRef, isAnalyzing, retryTimer,
                 error, result, seqDirty, momentum, intervals, retryIntervalRef,
                 analyses, starts, uploads, streamHeld, cursorState>>

\* The settle step analysing as soon as one of the two frames is there.
SettleDoneOneFrame ==
  /\ cycles # <<>>
  /\ cycles' = Tail(cycles)
  /\ \E frameB \in FrameOutcomes(streamHeld) :
       IF Head(cycles).frameA \/ frameB
       THEN /\ TriggerAnalysis(Head(cycles).cl, 2)
            /\ inv' = [NoInv EXCEPT !.op = "settle",
                                    !.captured = (Head(cycles).frameA /\ frameB)]
            /\ UNCHANGED <<timers, timerRef>>
       ELSE /\ ArmTimer(timers, CaptureRetryDelay, Head(cycles).cl,
                        [NoInv EXCEPT !.op = "settle"])
            /\ UNCHANGED <<isAnalyzing, retryTimer, momentum, intervals,
                           retryIntervalRef, analyses>>
  /\ UNCHANGED <<mode, isLive, isAutoPilot, isAutoPilotRef, error, result, seqDirty,
                 starts, uploads, streamHeld, cursorState>>

\* captureAndAnalyze after its settle wait: frame B, then the analysis or the
\* fast retry.  All settle waits last the same 200 ms, so they end in the
\* order they began.  The observation notes in `captured` whether both
\* frames were there.
SettleDone ==
  /\ cycles # <<>>
  /\ cycles' = Tail(cycles)
  /\ \E frameB \in FrameOutcomes(streamHeld) :
       IF Head(cycles).frameA /\ frameB
       THEN /\ TriggerAnalysis(Head(cycles).cl, 2)
            /\ inv' = [NoInv EXCEPT !.op = "settle",
                                    !.captured = (Head(cycles).frameA /\ frameB)]
            /\ UNCHANGED <<timers, timerRef>>
       ELSE /\ ArmTimer(timers, CaptureRetryDelay, Head(cycles).cl,
                        [NoInv EXCEPT !.op = "settle"])
            /\ UNCHANGED <<isAnalyzing, retryTimer, momentum, intervals,
                           retryIntervalRef, analyses>>
  /\ UNCHANGED <<mode, isLive, isAutoPilot, isAutoPilotRef, error, result, seqDirty,
                 starts, uploads, streamHeld, cursorState>>

----------------------------------------------------------------------------
(* startLiveAnalysis / stopLiveAnalysis *)

\* startLiveAnalysis up to the await of the capture source.  The start
\* buttons are rendered only while mode is UPLOAD.
StartLive(screen) ==
  /\ mode = "UPLOAD"
  /\ Len(starts) < MaxStarts
  /\ timers' = StoppedTimers
  /\ timerRef' = 0
  /\ intervals' = StoppedIntervals
  /\ retryIntervalRef' = 0
  /\ retryTimer' = 0
  /\ streamHeld' = FALSE
  /\ cursorState' = HiddenCursor
  /\ mode' = IF screen THEN "SCREEN_SHARE" ELSE "LIVE_VISION"
  /\ isLive' = TRUE
  /\ error' = "none"
  /\ result' = NoResult
  /\ seqDirty' = (seqDirty \/ result.present)
  /\ starts' = Append(starts, [cl |-> Closure])
  /\ inv' = NoInv
  /\ UNCHANGED <<isAutoPilot, isAutoPilotRef, isAnalyzing, momentum, cycles,
                 analyses, uploads>>

\* The capture source was acquired: the stream is shown and the first cycle
\* is attempted by the callback of the render that started it.
StartAcquired(i) ==
  /\ i \in 1..Len(starts)
  /\ starts' = RemoveAt(starts, i)
  /\ streamHeld' = TRUE
  /\ CaptureAndAnalyze(starts[i].cl, timers, timerRef, TRUE, "start")
  /\ UNCHANGED <<mode, isLive, isAutoPilot, isAutoPilotRef, isAnalyzing, retryTimer,
                 error, result, seqDirty, momentum, intervals, retryIntervalRef,
                 analyses, uploads, cursorState>>

\* The catch block without `isLiveRef.current = false`.
StartFailedStillLive(i) ==
  /\ i \in 1..Len(starts)
  /\ starts' = RemoveAt(starts, i)
  /\ error' = "SourceUnavailable"
  /\ mode' = "UPLOAD"
  /\ isLive' = isLive
  /\ inv' = [NoInv EXCEPT !.op = "startFailed"]
  /\ UNCHANGED <<isAutoPilot, isAutoPilotRef, isAnalyzing, retryTimer, result,
                 seqDirty, momentum, timers, timerRef, intervals, retryIntervalRef,
                 cycles, analyses, uploads, streamHeld, cursorState>>

\* The capture source could not be acquired (the catch block).
StartFailed(i) ==
  /\ i \in 1..Len(starts)
  /\ starts' = RemoveAt(starts, i)
  /\ error' = "SourceUnavailable"
  /\ mode' = "UPLOAD"
  /\ isLive' = FALSE
  /\ inv' = [NoInv EXCEPT !.op = "startFailed"]
  /\ UNCHANGED <<isAutoPilot, isAutoPilotRef, isAnalyzing, retryTimer, result,
                 seqDirty, momentum, timers, timerRef, intervals, retryIntervalRef,
                 cycles, analyses, uploads, streamHeld, cursorState>>

\* The STOP UPLINK button, rendered only in a live mode.
StopButton ==
  /\ mode # "UPLOAD"
  /\ mode' = "UPLOAD"
  /\ isLive' = FALSE
  /\ timers' = StoppedTimers
  /\ timerRef' = 0
  /\ intervals' = StoppedIntervals
  /\ retryIntervalRef' = 0
  /\ retryTimer' = 0
  /\ streamHeld' = FALSE
  /\ cursorState' = HiddenCursor
  /\ inv' = Stopped
  /\ UNCHANGED <<isAutoPilot, isAutoPilotRef, isAnalyzing, error, result, seqDirty,
                 momentum, cycles, analyses, starts, uploads>>

\* The auto-pilot switch, rendered only in a live mode.
TogglePilot ==
  /\ mode # "UPLOAD"
  /\ isAutoPilot' = ~isAutoPilot
  /\ isAutoPilotRef' = ~isAutoPilot
  /\ inv' = NoInv
  /\ UNCHANGED <<mode, isLive, isAnalyzing, retryTimer, error, result, seqDirty,
                 momentum, timers, timerRef, intervals, retryIntervalRef, cycles,
                 analyses, starts, uploads, streamHeld, cursorState>>

----------------------------------------------------------------------------
(* handleVoiceCommand *)

\* 'ANALYZE': setIsAutoPilot(true) takes effect with the next render, so the
\* captureAndAnalyze call of the same handler still reads the old ref.
VoiceAnalyze ==
  /\ isAutoPilot' = TRUE
  /\ isAutoPilotRef' = TRUE
  /\ IF mode # "UPLOAD"
     THEN CaptureAndAnalyze(Closure, timers, timerRef, streamHeld, "voice")
     ELSE /\ inv' = NoInv
          /\ UNCHANGED <<timers, timerRef, cycles>>
  /\ UNCHANGED <<mode, isLive, isAnalyzing, retryTimer, error, result, seqDirty,
                 momentum, intervals, retryIntervalRef, analyses, starts, uploads,
                 streamHeld, cursorState>>

\* 'STOP'
VoiceStop ==
  /\ isAutoPilot' = FALSE
  /\ isAutoPilotRef' = FALSE
  /\ isLive' = FALSE
  /\ timers' = StoppedTimers
  /\ timerRef' = 0
  /\ intervals' = StoppedIntervals
  /\ retryIntervalRef' = 0
  /\ retryTimer' = 0
  /\ streamHeld' = FALSE
  /\ cursorState' = HiddenCursor
  /\ mode' = "UPLOAD"
  /\ inv' = Stopped
  /\ UNCHANGED <<isAnalyzing, error, result, seqDirty, momentum, cycles, analyses,
                 starts, uploads>>

----------------------------------------------------------------------------
(* handleFileUpload *)

\* handleFileUpload up to the await of the file read.
Upload ==
  /\ Len(uploads) < MaxUploads
  /\ mode' = "UPLOAD"
  /\ isLive' = FALSE
  /\ timers' = StoppedTimers
  /\ timerRef' = 0
  /\ intervals' = StoppedIntervals
  /\ retryIntervalRef' = 0
  /\ retryTimer' = 0
  /\ streamHeld' = FALSE
  /\ cursorState' = HiddenCursor
  /\ error' = "none"
  /\ uploads' = Append(uploads, [cl |-> Closure])
  /\ inv' = NoInv
  /\ UNCHANGED <<isAutoPilot, isAutoPilotRef, isAnalyzing, result, seqDirty,
                 momentum, cycles, analyses, starts>>

\* The file was read: triggerAnalysis([base64Data]).
UploadRead ==
  /\ uploads # <<>>
  /\ uploads' = Tail(uploads)
  /\ TriggerAnalysis(Head(uploads).cl, 1)
  /\ inv' = NoInv
  /\ UNCHANGED <<mode, isLive, isAutoPilot, isAutoPilotRef, error, result, seqDirty,
                 timers, timerRef, cycles, starts, streamHeld, cursorState>>

\* The file could not be read.
UploadFailed ==
  /\ uploads # <<>>
  /\ uploads' = Tail(uploads)
  /\ error' = "UploadFailed"
  /\ inv' = NoInv
  /\ UNCHANGED <<mode, isLive, isAutoPilot, isAutoPilotRef, isAnalyzing, retryTimer,
                 result, seqDirty, momentum, timers, timerRef, intervals,
                 retryIntervalRef, cycles, analyses, starts, streamHeld,
                 cursorState>>

----------------------------------------------------------------------------
(* AnalysisView and MacroView: what the playback sees of App *)

\* AnalysisView renders MacroView only when there is a result, and passes
\* result.macroSequence and onPreviewStep down unchanged.
Mounted == result.present

Sequence == result.macroSequence

\* onPreviewStep as App passes it: animateSingleStep, whose identity changes
\* with momentum and mode (its useCallback dependencies), or undefined when
\* the auto-pilot is off.  It closes over momentum and mode.
NoCallback == [defined |-> FALSE, momentum |-> 0, mode |-> "none"]

CurCb ==
  IF isAutoPilot THEN [defined |-> TRUE, momentum |-> momentum, mode |-> mode]
  ELSE NoCallback

\* The dependencies of the playback effect other than the sequence.
CurDeps == [playing |-> isLocallyPlaying, cb |-> CurCb]

\* Dependencies no render has: the playback effect has to run.
NoDeps == [playing |-> FALSE, cb |-> [NoCallback EXCEPT !.mode = "stale"]]

EffectsPending == Mounted /\ (seqDirty \/ effDeps # CurDeps)

Flushed == ~EffectsPending

NoPlay == [op |-> "none", step |-> NoStep, speed |-> 0, elapsed |-> 0,
           from |-> 0, len |-> 0, advanced |-> FALSE, done |-> FALSE,
           owner |-> "none", awaited |-> FALSE]

----------------------------------------------------------------------------
(* animateSingleStep *)

IsSwipe(step) == step.type \in SwipeTypes

Put(b, a) == b (+) SetToBag({a})

Take(b, a) == b (-) SetToBag({a})

\* The animation whose pending frame animationFrameRef.current designates.
Held(b) == {a \in BagToSet(b) : a.frame = "held"}

\* cancelAnimationFrame(animationFrameRef.current): the swipe whose frame is
\* cancelled never runs again and its promise never settles.
CancelFrame(b) == b (-) SetToBag(Held(b))

\* animationFrameRef.current is overwritten by another request.
Unhold(b) ==
  (b (-) SetToBag(Held(b))) (+) SetToBag({[a EXCEPT !.frame = "pending"] : a \in Held(b)})

\* The cleanup of the playback effect sets isMounted to false: the loop that
\* awaits an animation will break when the animation returns.
Orphaned(b) ==
  LET w == {a \in BagToSet(b) : a.awaited}
  IN (b (-) SetToBag(w)) (+) SetToBag({[a EXCEPT !.awaited = FALSE] : a \in w})

MovePose(p) == [x |-> Whole(p.x), y |-> Whole(p.y), isDown |-> FALSE, type |-> "MOVE",
                isVisible |-> TRUE, precisionMode |-> FALSE]

\* The action phase with a swipe branch that asks for the start point only.
ActionPhaseAnySwipe(step, c) ==
  IF step.type = "TAP"
  THEN [cursor |-> IF HasPoint(step.coordinates)
                   THEN [c EXCEPT !.x = Whole(step.coordinates.x),
                                  !.y = Whole(step.coordinates.y),
                                  !.isDown = TRUE, !.type = "TAP",
                                  !.precisionMode = TRUE]
                   ELSE [c EXCEPT !.isDown = TRUE, !.type = "TAP",
                                  !.precisionMode = TRUE],
        phase |-> "press"]
  ELSE IF IsSwipe(step) /\ HasPoint(step.coordinates)
  THEN [cursor |-> [c EXCEPT !.isDown = TRUE, !.type = step.type,
                             !.precisionMode = FALSE],
        phase |-> "swipe"]
  ELSE IF step.type = "WAIT"
  THEN [cursor |-> [c EXCEPT !.type = "WAIT..."], phase |-> "wait"]
  ELSE [cursor |-> c, phase |-> "recover"]

\* The action phase up to its wait: the pose it sets and the phase entered.
ActionPhase(step, c) ==
  IF step.type = "TAP"
  THEN [cursor |-> IF HasPoint(step.coordinates)
                   THEN [c EXCEPT !.x = Whole(step.coordinates.x),
                                  !.y = Whole(step.coordinates.y),
                                  !.isDown = TRUE, !.type = "TAP",
                                  !.precisionMode = TRUE]
                   ELSE [c EXCEPT !.isDown = TRUE, !.type = "TAP",
                                  !.precisionMode = TRUE],
        phase |-> "press"]
  ELSE IF IsSwipe(step) /\ HasPoint(step.coordinates) /\ HasPoint(step.endCoordinates)
  THEN [cursor |-> [c EXCEPT !.isDown = TRUE, !.type = step.type,
                             !.precisionMode = FALSE],
        phase |-> "swipe"]
  ELSE IF step.type = "WAIT"
  THEN [cursor |-> [c EXCEPT !.type = "WAIT..."], phase |-> "wait"]
  ELSE [cursor |-> c, phase |-> "recover"]

\* animateSingleStep(step) up to its first wait, called through the callback
\* cb, with b the animations in progress, c the cursor and m the momentum.
\* The call is owned by playLoop, which awaits it, or by a control.
\* speedFactor is the momentum cb closed over; it sets the length of the
\* waits, which the model does not time, and the pace of a swipe: it is
\* kept for swipes only.
AnimateSingleStep(step, cb, awaited, b, c, m) ==
  IF ~isAutoPilotRef /\ cb.mode # "UPLOAD"
  THEN [ran |-> FALSE, momentum |-> m, cursor |-> c, anims |-> b]
  ELSE LET shown == [c EXCEPT !.isVisible = TRUE, !.precisionMode = FALSE]
           first == IF HasPoint(step.coordinates)
                    THEN [cursor |-> MovePose(step.coordinates), phase |-> "travel"]
                    ELSE ActionPhase(step, shown)
           a == [step |-> step, phase |-> first.phase, awaited |-> awaited,
                 owner |-> IF awaited THEN "loop" ELSE "control",
                 speed |-> IF IsSwipe(step) THEN cb.momentum ELSE 0,
                 elapsed |-> 0, frame |-> "none"]
       IN [ran |-> TRUE, momentum |-> Min(m + 1, MomentumCap),
           cursor |-> first.cursor, anims |-> Put(CancelFrame(b), a)]

\* progress = Math.min(elapsed / duration, 1) with
\* duration = (durationMs || 500) / speedFactor, speed in tenths.
Progress(step, speed, elapsed) ==
  LET baseDuration == IF step.durationMs # 0 THEN step.durationMs ELSE DefaultSwipeMs
  IN IF elapsed * speed >= baseDuration * 10 THEN Whole(1)
     ELSE Frac(elapsed * speed, baseDuration * 10)

\* The progress taken as it is, whatever the kind of swipe.
EaseLinear(type, t) == t

\* ease: t < .5 ? 2*t*t : -1 + (4 - 2*t)*t for HUMAN_SWIPE, t otherwise.
Ease(type, t) ==
  IF type = "HUMAN_SWIPE"
  THEN IF 2 * t.n < t.d
       THEN Frac(2 * t.n * t.n, t.d * t.d)
       ELSE Frac((4 * t.d - 2 * t.n) * t.n - t.d * t.d, t.d * t.d)
  ELSE t

\* from + (to - from) * t
Lerp(from, to, t) == Frac(from * t.d + (to - from) * t.n, t.d)

\* The pose animateSwipe sets at a frame.
SwipePose(step, speed, elapsed) ==
  LET t == Ease(step.type, Progress(step, speed, elapsed))
  IN [x |-> Lerp(step.coordinates.x, step.endCoordinates.x, t),
      y |-> Lerp(step.coordinates.y, step.endCoordinates.y, t),
      isDown |-> TRUE, type |-> step.type, isVisible |-> TRUE,
      precisionMode |-> FALSE]

\* playLoop after `await onPreviewStep(stepData)` returned for animation a:
\* it breaks if its effect was cleaned up or playback stopped, else it
\* advances the index and pauses 200 ms.  An effect that is due has its
\* cleanup run before any callback.
Resume(a) ==
  IF a.awaited /\ Flushed
  THEN IF isPlayingRef
       THEN currentStepIndex' = currentStepIndex + 1 /\ loopPos' = "pause"
       ELSE currentStepIndex' = currentStepIndex /\ loopPos' = "idle"
  ELSE UNCHANGED <<currentStepIndex, loopPos>>

Resumed(a) == a.awaited /\ Flushed /\ isPlayingRef

\* Callbacks run when no effect is due; with MaxAnims animations in
\* progress an effect that is due waits for an animation to end.
MayRun == Flushed \/ BagCardinality(anims) >= MaxAnims

\* A wait of animation a ends: animateSingleStep up to its next wait.
AnimStep(a) ==
  /\ a \in BagToSet(anims)
  /\ a.phase # "swipe"
  /\ MayRun
  /\ LET rest == Take(anims, a)
         act == ActionPhase(a.step, cursorState)
         seen == [NoPlay EXCEPT !.op = "phase", !.step = a.step,
                                !.from = currentStepIndex, !.owner = a.owner]
     IN
     IF a.phase = "travel" /\ a.step.type # "WAIT"
     THEN /\ cursorState' = [cursorState EXCEPT !.precisionMode = TRUE]
          /\ anims' = Put(rest, [a EXCEPT !.phase = "lock"])
          /\ played' = seen
          /\ UNCHANGED <<currentStepIndex, loopPos>>
     ELSE IF a.phase \in {"travel", "lock"}
     THEN /\ cursorState' = act.cursor
          /\ anims' = IF act.phase = "swipe"
                      THEN Put(Unhold(rest), [a EXCEPT !.phase = "swipe", !.frame = "held"])
                      ELSE Put(rest, [a EXCEPT !.phase = act.phase])
          /\ played' = seen
          /\ UNCHANGED <<currentStepIndex, loopPos>>
     ELSE IF a.phase = "press"
     THEN /\ cursorState' = [cursorState EXCEPT !.isDown = FALSE, !.precisionMode = FALSE]
          /\ anims' = Put(rest, [a EXCEPT !.phase = "recover"])
          /\ played' = seen
          /\ UNCHANGED <<currentStepIndex, loopPos>>
     ELSE IF a.phase = "wait"
     THEN /\ anims' = Put(rest, [a EXCEPT !.phase = "recover"])
          /\ played' = seen
          /\ UNCHANGED <<cursorState, currentStepIndex, loopPos>>
     ELSE /\ anims' = rest
          /\ Resume(a)
          /\ played' = [seen EXCEPT !.op = "recover", !.done = TRUE,
                                    !.advanced = Resumed(a)]
          /\ UNCHANGED cursorState
  /\ UNCHANGED <<isLocallyPlaying, isPlayingRef, effDeps, uninterrupted, momentum,
                 seqDirty, schedVars>>

\* A requestAnimationFrame callback of swipe a runs, elapsed ms after the
\* swipe began: animateSwipe.
AnimFrame(a, elapsed) ==
  /\ a \in BagToSet(anims)
  /\ a.phase = "swipe"
  /\ elapsed > a.elapsed
  /\ MayRun
  /\ LET rest == Take(anims, a)
         pose == SwipePose(a.step, a.speed, elapsed)
         seen == [NoPlay EXCEPT !.op = "frame", !.step = a.step, !.speed = a.speed,
                                !.elapsed = elapsed, !.from = currentStepIndex,
                                !.owner = a.owner]
     IN
     IF Progress(a.step, a.speed, elapsed) # Whole(1)
     THEN /\ cursorState' = pose
          /\ anims' = Put(Unhold(rest), [a EXCEPT !.elapsed = elapsed, !.frame = "held"])
          /\ played' = seen
          /\ UNCHANGED <<currentStepIndex, loopPos>>
     ELSE /\ cursorState' = [pose EXCEPT !.isDown = FALSE]
          /\ anims' = rest
          /\ Resume(a)
          /\ played' = [seen EXCEPT !.done = TRUE, !.advanced = Resumed(a)]
  /\ UNCHANGED <<isLocallyPlaying, isPlayingRef, effDeps, uninterrupted, momentum,
                 seqDirty, schedVars>>

----------------------------------------------------------------------------
(* MacroView: effects, playLoop and controls *)

\* The sequence effect: a new sequence resets the index and autoplays.
AttachEffect ==
  /\ Mounted
  /\ seqDirty
  /\ seqDirty' = FALSE
  /\ IF Len(Sequence) > 0
     THEN currentStepIndex' = 0 /\ isLocallyPlaying' = TRUE
     ELSE currentStepIndex' = -1 /\ isLocallyPlaying' = FALSE
  /\ effDeps' = NoDeps
  /\ uninterrupted' = (Len(Sequence) > 0 /\ anims = EmptyBag)
  /\ played' = [NoPlay EXCEPT !.op = "attach", !.from = currentStepIndex,
                              !.len = Len(Sequence)]
  /\ UNCHANGED <<isPlayingRef, loopPos, anims, momentum, cursorState, schedVars>>

\* playLoop without the flip to Paused at the end of the sequence.
LoopBodyNoStop(cb, b) ==
  LET idx == currentStepIndex
      stay == [playing |-> isLocallyPlaying, index |-> idx, loopPos |-> "idle",
               momentum |-> momentum, cursor |-> cursorState, anims |-> b]
  IN
  IF idx >= Len(Sequence) \/ idx < 0
  THEN stay
  ELSE IF ~cb.defined
  THEN [stay EXCEPT !.loopPos = "fallback"]
  ELSE LET r == AnimateSingleStep(Sequence[idx + 1], cb, TRUE, b, cursorState, momentum)
       IN IF r.ran
          THEN [stay EXCEPT !.loopPos = "anim", !.momentum = r.momentum,
                            !.cursor = r.cursor, !.anims = r.anims]
          ELSE [stay EXCEPT !.loopPos = "pause", !.index = idx + 1]

\* One iteration of playLoop, from the test of the while to the next wait,
\* with cb the onPreviewStep of its effect and b the animations in progress.
LoopBody(cb, b) ==
  LET idx == currentStepIndex
      stay == [playing |-> isLocallyPlaying, index |-> idx, loopPos |-> "idle",
               momentum |-> momentum, cursor |-> cursorState, anims |-> b]
  IN
  IF idx >= Len(Sequence) \/ idx < 0
  THEN [stay EXCEPT !.playing = FALSE]
  ELSE IF ~cb.defined
  THEN [stay EXCEPT !.loopPos = "fallback"]
  ELSE LET r == AnimateSingleStep(Sequence[idx + 1], cb, TRUE, b, cursorState, momentum)
       IN IF r.ran
          THEN [stay EXCEPT !.loopPos = "anim", !.momentum = r.momentum,
                            !.cursor = r.cursor, !.anims = r.anims]
          ELSE [stay EXCEPT !.loopPos = "pause", !.index = idx + 1]

\* The playback effect: the cleanup of its previous run, then playLoop() if
\* playing.  The effect that copies isLocallyPlaying to isPlayingRef runs
\* just before it.
PlaybackEffect ==
  /\ Mounted
  /\ ~seqDirty
  /\ effDeps # CurDeps
  /\ effDeps' = CurDeps
  /\ isPlayingRef' = isLocallyPlaying
  /\ LET r == IF isLocallyPlaying /\ Len(Sequence) > 0
              THEN LoopBody(CurCb, Orphaned(anims))
              ELSE [playing |-> isLocallyPlaying, index |-> currentStepIndex,
                    loopPos |-> "idle", momentum |-> momentum,
                    cursor |-> cursorState, anims |-> Orphaned(anims)]
     IN /\ BagCardinality(r.anims) <= MaxAnims
        /\ isLocallyPlaying' = r.playing
        /\ currentStepIndex' = r.index
        /\ loopPos' = r.loopPos
        /\ momentum' = r.momentum
        /\ cursorState' = r.cursor
        /\ anims' = r.anims
        /\ played' = [NoPlay EXCEPT !.op = "effect", !.from = currentStepIndex,
                                    !.advanced = (r.index # currentStepIndex)]
  /\ UNCHANGED <<uninterrupted, seqDirty, schedVars>>

\* The 200 ms pause between two steps ends: the next iteration of playLoop.
LoopPauseDone ==
  /\ Flushed
  /\ loopPos = "pause"
  /\ LET r == IF isPlayingRef
              THEN LoopBody(effDeps.cb, anims)
              ELSE [playing |-> isLocallyPlaying, index |-> currentStepIndex,
                    loopPos |-> "idle", momentum |-> momentum,
                    cursor |-> cursorState, anims |-> anims]
     IN /\ BagCardinality(r.anims) <= MaxAnims
        /\ isLocallyPlaying' = r.playing
        /\ currentStepIndex' = r.index
        /\ loopPos' = r.loopPos
        /\ momentum' = r.momentum
        /\ cursorState' = r.cursor
        /\ anims' = r.anims
        /\ played' = [NoPlay EXCEPT !.op = "pause", !.from = currentStepIndex,
                                    !.advanced = (r.index # currentStepIndex)]
  /\ UNCHANGED <<isPlayingRef, effDeps, uninterrupted, seqDirty, schedVars>>

\* The promise of preview a rejects and playLoop, if it still awaits it, goes
\* on without the catch block: its own promise rejects and the loop is over.
PreviewRejectsUncaught(a) ==
  /\ a \in BagToSet(anims)
  /\ a.phase # "swipe"
  /\ MayRun
  /\ anims' = Take(anims, a)
  /\ IF a.awaited /\ Flushed
     THEN currentStepIndex' = currentStepIndex /\ loopPos' = "idle"
     ELSE UNCHANGED <<currentStepIndex, loopPos>>
  /\ played' = [NoPlay EXCEPT !.op = "rejected", !.step = a.step,
                              !.from = currentStepIndex, !.owner = a.owner,
                              !.awaited = a.awaited /\ Flushed]
  /\ UNCHANGED <<isLocallyPlaying, isPlayingRef, effDeps, uninterrupted, momentum,
                 cursorState, seqDirty, schedVars>>

\* The promise of preview a rejects at one of its waits: the catch block of
\* playLoop logs a warning and the loop goes on as after a return.
\* onPreviewStep is a prop of MacroView; animateSingleStep, the one App
\* passes, has no statement that throws, so the rejection is an input of
\* the loop specification only.
PreviewRejects(a) ==
  /\ a \in BagToSet(anims)
  /\ a.phase # "swipe"
  /\ MayRun
  /\ anims' = Take(anims, a)
  /\ Resume(a)
  /\ played' = [NoPlay EXCEPT !.op = "rejected", !.step = a.step,
                              !.from = currentStepIndex, !.owner = a.owner,
                              !.awaited = a.awaited /\ Flushed]
  /\ UNCHANGED <<isLocallyPlaying, isPlayingRef, effDeps, uninterrupted, momentum,
                 cursorState, seqDirty, schedVars>>

\* The wait that stands for the animation when there is no onPreviewStep
\* ends: the loop advances and pauses.
LoopFallbackDone ==
  /\ Flushed
  /\ loopPos = "fallback"
  /\ IF isPlayingRef
     THEN currentStepIndex' = currentStepIndex + 1 /\ loopPos' = "pause"
     ELSE currentStepIndex' = currentStepIndex /\ loopPos' = "idle"
  /\ played' = [NoPlay EXCEPT !.op = "fallback", !.from = currentStepIndex,
                              !.advanced = isPlayingRef]
  /\ UNCHANGED <<isLocallyPlaying, isPlayingRef, effDeps, anims, uninterrupted,
                 momentum, cursorState, seqDirty, schedVars>>

\* The controls are rendered only for a non-empty sequence.
ControlsShown == Flushed /\ Mounted /\ Len(Sequence) > 0

\* togglePlay that rewinds a finished sequence when it resumes.
TogglePlayRewind ==
  /\ ControlsShown
  /\ isLocallyPlaying' = ~isLocallyPlaying
  /\ currentStepIndex' = IF currentStepIndex >= Len(Sequence) THEN 0
                         ELSE currentStepIndex
  /\ uninterrupted' = FALSE
  /\ played' = [NoPlay EXCEPT !.op = "togglePlay", !.from = currentStepIndex,
                              !.len = Len(Sequence)]
  /\ UNCHANGED <<isPlayingRef, loopPos, effDeps, anims, momentum,
                 cursorState, seqDirty, schedVars>>

TogglePlay ==
  /\ ControlsShown
  /\ isLocallyPlaying' = ~isLocallyPlaying
  /\ uninterrupted' = FALSE
  /\ played' = [NoPlay EXCEPT !.op = "togglePlay", !.from = currentStepIndex,
                              !.len = Len(Sequence)]
  /\ UNCHANGED <<currentStepIndex, isPlayingRef, loopPos, effDeps, anims, momentum,
                 cursorState, seqDirty, schedVars>>

\* stepForward / stepBackward once the index to show is computed: pause,
\* move there and preview the step without awaiting it.
StepTo(op, index) ==
  /\ ControlsShown
  /\ isLocallyPlaying' = FALSE
  /\ currentStepIndex' = index
  /\ LET r == IF index >= 0 /\ index < Len(Sequence) /\ CurCb.defined
              THEN AnimateSingleStep(Sequence[index + 1], CurCb, FALSE, anims,
                                     cursorState, momentum)
              ELSE [ran |-> FALSE, momentum |-> momentum, cursor |-> cursorState,
                    anims |-> anims]
     IN /\ BagCardinality(r.anims) <= MaxAnims
        /\ momentum' = r.momentum
        /\ cursorState' = r.cursor
        /\ anims' = r.anims
  /\ uninterrupted' = FALSE
  /\ played' = [NoPlay EXCEPT !.op = op, !.from = currentStepIndex,
                              !.len = Len(Sequence)]
  /\ UNCHANGED <<isPlayingRef, loopPos, effDeps, seqDirty, schedVars>>

\* stepForward without the clamp to the last step.
stepForwardUnclamped == StepTo("stepForward", currentStepIndex + 1)

stepForward == StepTo("stepForward", Min(currentStepIndex + 1, Len(Sequence) - 1))

stepBackward == StepTo("stepBackward", Max(currentStepIndex - 1, 0))

----------------------------------------------------------------------------
(* The profile store of services/storage.ts *)

\* A profile: its id and its notes (name and genre are carried along with
\* the notes and left out).  JSON.stringify and JSON.parse give such a
\* record back as it was.
Profile(id, notes) == [id |-> id, notes |-> notes]

NoProfile == Profile("none", "")

\* The preloaded profiles, the first two of them.
SYSTEM_PROFILES ==
  <<Profile("universal_auto", "system"), Profile("fps_royale", "system")>>

SystemIds == {SYSTEM_PROFILES[i].id : i \in 1..Len(SYSTEM_PROFILES)}

\* The ids saveProfile and deleteProfile are called with: those of the
\* preloaded profiles (the auto-learn saves the active profile, which is
\* the first system profile by default) and Date.now() strings.
ProfileIds == SystemIds \cup {"1700000000001", "1700000000002"}

ProfileNotes == {"system", "system [AUTO-LEARNED]", "mine"}

RECURSIVE FindIndex(_, _, _)
\* userProfiles.findIndex(p => p.id === id), from position i; 0 for -1.
FindIndex(profiles, id, i) ==
  IF i > Len(profiles) THEN 0
  ELSE IF profiles[i].id = id THEN i
  ELSE FindIndex(profiles, id, i + 1)

\* getProfiles(): the system profiles, then the user profiles whose id is
\* not that of a system profile.
getProfiles(stored) ==
  SYSTEM_PROFILES \o SelectSeq(stored, LAMBDA up : up.id \notin SystemIds)

\* saveProfile(profile): replace the stored profile of that id or append.
saveProfile(profile) ==
  LET existingIndex == FindIndex(userProfiles, profile.id, 1)
  IN /\ userProfiles' = IF existingIndex > 0
                         THEN [userProfiles EXCEPT ![existingIndex] = profile]
                         ELSE Append(userProfiles, profile)
     /\ saved' = profile
     /\ UNCHANGED <<appVars, viewVars, uninterrupted, played, logVars>>

\* deleteProfile(id) without the test for a system profile.
deleteProfileAny(id) ==
  /\ userProfiles' = SelectSeq(userProfiles, LAMBDA p : p.id # id)
  /\ saved' = NoProfile
  /\ UNCHANGED <<appVars, viewVars, uninterrupted, played, logVars>>

\* deleteProfile(id): system profiles cannot be deleted.
deleteProfile(id) ==
  /\ userProfiles' = IF id \in SystemIds THEN userProfiles
                     ELSE SelectSeq(userProfiles, LAMBDA p : p.id # id)
  /\ saved' = NoProfile
  /\ UNCHANGED <<appVars, viewVars, uninterrupted, played, logVars>>

----------------------------------------------------------------------------
(* The log stores of services/storage.ts *)

\* The length above which the oldest record is dropped before a push.
LogLimit == 50

\* A record is identified by its serial number: the one after the newest
\* stored record.
NextSerial(stored) == IF stored = <<>> THEN 1 ELSE stored[Len(stored)] + 1

\* if (logs.length > 50) logs.shift(); logs.push(log)
Pushed(stored, log) ==
  Append(IF Len(stored) > LogLimit THEN Tail(stored) ELSE stored, log)

saveLog(log) ==
  /\ log <= MaxLogs
  /\ logs' = Pushed(logs, log)
  /\ UNCHANGED <<appVars, viewVars, uninterrupted, played, userProfiles, saved,
                 errorLogs>>

saveErrorLog(log) ==
  /\ log <= MaxLogs
  /\ errorLogs' = Pushed(errorLogs, log)
  /\ UNCHANGED <<appVars, viewVars, uninterrupted, played, userProfiles, saved,
                 logs>>

----------------------------------------------------------------------------
(* The scheduler: every handler of App that drives the live loop *)

vars == <<appVars, playVars>>

\* MacroView is not rendered before the first result.
InitView ==
  /\ currentStepIndex = -1
  /\ isLocallyPlaying = FALSE
  /\ isPlayingRef = FALSE
  /\ loopPos = "idle"
  /\ effDeps = NoDeps
  /\ anims = EmptyBag
  /\ uninterrupted = FALSE
  /\ played = NoPlay

InitStore ==
  /\ userProfiles = <<>>
  /\ saved = NoProfile
  /\ logs = <<>>
  /\ errorLogs = <<>>

Init == InitApp /\ InitView /\ InitStore

\* A handler of App runs once the effects are flushed; MacroView is not
\* touched by it.
External ==
  /\ Flushed
  /\ uninterrupted' = FALSE
  /\ played' = NoPlay
  /\ UNCHANGED <<viewVars, storeVars>>

Next ==
  \/ (\E screen \in BOOLEAN : StartLive(screen)) /\ UNCHANGED playVars
  \/ (\E i \in 1..MaxStarts : StartAcquired(i)) /\ UNCHANGED playVars
  \/ (\E i \in 1..MaxStarts : StartFailed(i)) /\ UNCHANGED playVars
  \/ (StopButton) /\ UNCHANGED playVars
  \/ (TogglePilot) /\ UNCHANGED playVars
  \/ (VoiceAnalyze) /\ UNCHANGED playVars
  \/ (VoiceStop) /\ UNCHANGED playVars
  \/ (\E i \in 1..MaxTimers : TimerFire(i)) /\ UNCHANGED playVars
  \/ (SettleDone) /\ UNCHANGED playVars
  \/ (\E i \in 1..MaxAnalyses : \E seq \in SchedSequences : AnalysisSucceed(i, seq)) /\ UNCHANGED playVars
  \/ (\E i \in 1..MaxAnalyses : \E e \in SchedFailures : AnalysisFail(i, e)) /\ UNCHANGED playVars
  \/ (\E i \in 1..MaxIntervals : IntervalTick(i)) /\ UNCHANGED playVars

Spec == Init /\ [][Next]_vars

\* The event loop runs every callback that is due: a pending timer fires, a
\* settle wait ends, and an analysis call in flight resolves or rejects.
TimerStep == (\E i \in 1..MaxTimers : TimerFire(i)) /\ UNCHANGED playVars

SettleStep == SettleDone /\ UNCHANGED playVars

AnalysisStep ==
  /\ \E i \in 1..MaxAnalyses :
       \/ \E seq \in SchedSequences : AnalysisSucceed(i, seq)
       \/ \E e \in SchedFailures : AnalysisFail(i, e)
  /\ UNCHANGED playVars

SpecFair ==
  Spec /\ WF_vars(TimerStep) /\ WF_vars(SettleStep) /\ WF_vars(AnalysisStep)

----------------------------------------------------------------------------
(* The failure path: one uploaded image analysed, the call rejecting with   *)
(* any rejection value                                                      *)

NextClassify ==
  \/ Upload /\ UNCHANGED playVars
  \/ UploadRead /\ UNCHANGED playVars
  \/ (analyses # <<>> /\ \E e \in RawFailures : AnalysisFail(1, e)) /\ UNCHANGED playVars

SpecClassify == Init /\ [][NextClassify]_vars

----------------------------------------------------------------------------
(* The playback: uploaded images analysed with the auto-pilot on, the      *)
(* sequences played and the controls used                                  *)

NextPlay ==
  \/ Upload /\ External
  \/ UploadRead /\ External
  \/ (\E seq \in PlaySequences : AnalysisSucceed(1, seq)) /\ External
  \/ AttachEffect
  \/ PlaybackEffect
  \/ \E a \in BagToSet(anims) : AnimStep(a)
  \/ LoopPauseDone
  \/ TogglePlay
  \/ stepForward
  \/ stepBackward

SpecPlay == Init /\ [][NextPlay]_vars

\* Effects run after the render that made them due, and every wait of an
\* animation and of the loop ends: weak fairness of each.
AnimSteps == \E a \in BagToSet(anims) : AnimStep(a)

\* The run specification: continuous playback that only togglePlay, an
\* upload or a new result interrupts.
NextRun ==
  \/ Upload /\ External
  \/ UploadRead /\ External
  \/ (\E seq \in PlaySequences : AnalysisSucceed(1, seq)) /\ External
  \/ AttachEffect
  \/ PlaybackEffect
  \/ AnimSteps
  \/ LoopPauseDone
  \/ TogglePlay

SpecRunFair ==
  /\ Init /\ [][NextRun]_vars
  /\ WF_vars(AttachEffect)
  /\ WF_vars(PlaybackEffect)
  /\ WF_vars(AnimSteps)
  /\ WF_vars(LoopPauseDone)

\* The loop specification: continuous playback without the controls, of
\* sequences whose steps lack coordinates, with previews that may reject.
NextLoop ==
  \/ Upload /\ External
  \/ UploadRead /\ External
  \/ (\E seq \in LoopSequences : AnalysisSucceed(1, seq)) /\ External
  \/ AttachEffect
  \/ PlaybackEffect
  \/ \E a \in BagToSet(anims) : AnimStep(a)
  \/ \E a \in BagToSet(anims) : PreviewRejects(a)
  \/ LoopPauseDone

SpecLoop == Init /\ [][NextLoop]_vars

\* The log specification: the scheduler with a log store that may fail.
NextLog ==
  \/ Next
  \/ (\E i \in 1..MaxAnalyses : \E seq \in SchedSequences : \E e \in StoreFailures :
        AnalysisLogFails(i, seq, e)) /\ UNCHANGED playVars
  \/ (\E i \in 1..MaxAnalyses : \E e \in SchedFailures :
        AnalysisFailUnlogged(i, e)) /\ UNCHANGED playVars

SpecLog == Init /\ [][NextLog]_vars

\* The cancel specification: a swipe followed by a wait, played by the loop
\* or stepped through.
AnimFrames == \E a \in BagToSet(anims) : \E elapsed \in FrameTimes : AnimFrame(a, elapsed)

NextCancel ==
  \/ Upload /\ External
  \/ UploadRead /\ External
  \/ (\E seq \in CancelSequences : AnalysisSucceed(1, seq)) /\ External
  \/ AttachEffect
  \/ PlaybackEffect
  \/ AnimSteps
  \/ AnimFrames
  \/ LoopPauseDone
  \/ stepForward

SpecCancel == Init /\ [][NextCancel]_vars

\* The store specification: the profile store alone, under any calls.
NextStore ==
  \/ \E id \in ProfileIds : \E notes \in ProfileNotes : saveProfile(Profile(id, notes))
  \/ \E id \in ProfileIds : deleteProfile(id)

SpecStore == Init /\ [][NextStore]_vars

\* The log store specification: the two log stores alone.
NextLogStore ==
  \/ saveLog(NextSerial(logs))
  \/ saveErrorLog(NextSerial(errorLogs))

SpecLogStore == Init /\ [][NextLogStore]_vars

----------------------------------------------------------------------------
(* The swipes: animateSwipe applied to every swipe, at every speed *)

\* A sequence of one swipe is shown, paused at its step; the analysis of a
\* later upload has failed; the preview of the step, begun at momentum
\* speed, has reached its swipe.
InitSwipe ==
  \E seq \in SwipeSequences : \E speed \in MomentumStart..MomentumCap :
    /\ mode = "UPLOAD"
    /\ isLive = FALSE
    /\ isAutoPilot = TRUE
    /\ isAutoPilotRef = TRUE
    /\ isAnalyzing = FALSE
    /\ retryTimer = 0
    /\ error = "Other"
    /\ result = [present |-> TRUE, macroSequence |-> seq]
    /\ momentum = Min(speed + 1, MomentumCap)
    /\ timers = <<>>
    /\ timerRef = 0
    /\ intervals = <<>>
    /\ retryIntervalRef = 0
    /\ cycles = <<>>
    /\ analyses = <<>>
    /\ starts = <<>>
    /\ uploads = <<>>
    /\ streamHeld = FALSE
    /\ cursorState = [MovePose(seq[1].coordinates) EXCEPT !.isDown = TRUE,
                                                          !.type = seq[1].type]
    /\ seqDirty = FALSE
    /\ inv = NoInv
    /\ currentStepIndex = 0
    /\ isLocallyPlaying = FALSE
    /\ isPlayingRef = FALSE
    /\ loopPos = "idle"
    /\ effDeps = [playing |-> FALSE,
                  cb |-> [defined |-> TRUE, momentum |-> Min(speed + 1, MomentumCap),
                          mode |-> "UPLOAD"]]
    /\ anims = SetToBag({[step |-> seq[1], phase |-> "swipe", awaited |-> FALSE,
                          owner |-> "control",
                          speed |-> speed, elapsed |-> 0, frame |-> "held"]})
    /\ uninterrupted = FALSE
    /\ played = [NoPlay EXCEPT !.op = "phase", !.step = seq[1]]
    /\ InitStore

NextSwipe ==
  \E a \in BagToSet(anims) : \E elapsed \in FrameTimes : AnimFrame(a, elapsed)

SpecSwipe == InitSwipe /\ [][NextSwipe]_vars

----------------------------------------------------------------------------
(* Claims about the scheduler *)

\* The capture cycles that are between their frame-A acquisition and their
\* cleanup: those in the settle wait and those whose analysis is in flight.
LiveAnalyses == {i \in 1..Len(analyses) : analyses[i].images = 2}
CyclesInProgress == Len(cycles) + Cardinality(LiveAnalyses)

\* C1: capture cycles never overlap -- at most one cycle is between its
\* frame-A acquisition and its cleanup, so at most one analysis is in flight.
C1_CyclesNeverOverlap == CyclesInProgress <= 1

\* C2: at most one capture-reschedule timer is pending and at most one retry
\* countdown interval is active.
C2_OneHandlePerLoop == Len(timers) <= 1 /\ Len(intervals) <= 1

\* The scheduler state stopLiveAnalysis writes.
StopState == <<isLive, timers, timerRef, intervals, retryIntervalRef, retryTimer,
               streamHeld>>

\* C3: stopLive leaves mode Idle, no pending capture timer, no active retry
\* countdown and retryRemaining = 0, and a second consecutive stopLive
\* leaves exactly that state.
C3_StopLiveIdempotent ==
  [][inv'.op = "stopLiveAnalysis" =>
       /\ isLive' = FALSE
       /\ timers' = <<>>
       /\ intervals' = <<>>
       /\ retryTimer' = 0
       /\ (inv.op = "stopLiveAnalysis" => StopState' = StopState)]_vars

\* An invocation of captureAndAnalyze in live mode with the pilot disabled.
StandbyCall(o) == o.op = "captureAndAnalyze" /\ o.live /\ ~o.pilot

\* What the standby branch leaves: no frame, no analysis call, one re-check
\* armed 1000 ms later and held by timerRef.
StandbyOutcome ==
  /\ ~inv'.captured
  /\ cycles' = cycles
  /\ analyses' = analyses
  /\ inv'.armed = 1000
  /\ Len(timers') >= 1
  /\ timerRef' = Len(timers')

\* C4 (as stated): every capture cycle invoked in live mode while the pilot
\* is disabled takes no frame, makes no analysis call and arms one re-check
\* 1000 ms later.
C4_StandbyAlways == [][StandbyCall(inv') => StandbyOutcome]_vars

\* C4 (amended): a capture cycle invoked in live mode while the pilot is
\* disabled, by a callback that sees neither busy nor a retry remaining,
\* takes no frame, makes no analysis call and arms one re-check 1000 ms later;
\* one that sees busy or a retry remaining returns without arming anything.
C4_StandbyWhenIdle ==
  [][StandbyCall(inv') =>
       IF ~inv'.busy /\ inv'.retry = 0
       THEN StandbyOutcome
       ELSE /\ ~inv'.captured
            /\ inv'.armed = 0
            /\ cycles' = cycles
            /\ analyses' = analyses
            /\ Len(timers') <= Len(timers)]_vars

\* C4 witness: a standby invocation that armed its re-check.
C4_Witness == StandbyCall(inv) /\ ~inv.busy /\ inv.retry = 0 /\ inv.armed = 1000

\* C12: if the capture source cannot be acquired, startLive ends with mode
\* Idle and an error surfaced, and that attempt arms no capture cycle, no
\* reschedule timer and no retry.
C12_StartFailureIdle ==
  [][inv'.op = "startFailed" =>
       /\ mode' = "UPLOAD"
       /\ isLive' = FALSE
       /\ error' # "none"
       /\ cycles' = cycles
       /\ analyses' = analyses
       /\ timers' = timers
       /\ intervals' = intervals
       /\ retryTimer' = retryTimer]_vars

\* C12 witness: a start attempt failed and nothing is armed.
C12_Witness ==
  /\ inv.op = "startFailed"
  /\ mode = "UPLOAD"
  /\ error = "SourceUnavailable"
  /\ timers = <<>>
  /\ cycles = <<>>
  /\ intervals = <<>>

\* C13: the capture source is held only while live: whenever mode is Idle
\* and no start attempt is pending, the capture stream is released.
C13_StreamOnlyWhileLive ==
  (mode = "UPLOAD" /\ starts = <<>>) => ~streamHeld

\* C14: when the Analyze command arrives in live mode with the pilot
\* disabled, not busy and no retry pending, the invocation it makes acquires
\* frame A itself instead of taking the standby branch.
C14_AnalyzeBypassesStandby ==
  (/\ inv.op = "captureAndAnalyze"
   /\ inv.by = "voice"
   /\ inv.live
   /\ ~inv.pilot
   /\ ~inv.busy
   /\ inv.retry = 0) => inv.captured

\* C15: disabling the pilot never stops the loop: a capture cycle that
\* finishes (success or failure) in live mode while the pilot is disabled
\* leaves the scheduler in the standby poll, that is with a re-check pending.
C15_PilotOffKeepsPolling ==
  (inv.op \in {"triggerAnalysis", "catch"} /\ inv.live /\ ~inv.pilot) =>
    timers # <<>>

\* C16: after every analysis failure, whatever its category, retryRemaining
\* is set to that failure's backoff (and then counts down one second per
\* tick, never below zero).
C16_RetrySetOnEveryFailure ==
  inv.op = "catch" => (retryTimer * 1000 = inv.nextDelay /\ retryTimer >= 0)

\* As many timers are pending and as many cycles are in their settle wait
\* as the model follows: no further timer can be armed and no further cycle
\* begun.
LoopsAtBound == Len(timers) = MaxTimers /\ Len(cycles) = MaxCycles

\* C17: every analysis failure is recoverable: after a failed cycle of any
\* category that ends in live mode with the pilot enabled, a new capture
\* cycle (frame acquisition) eventually starts, unless a stop is issued or
\* the pilot is disabled first; this also when the backoff timer fires while
\* the retry countdown is still above zero.  Behaviours in which concurrent
\* loops fill the model up to its bounds are not followed further.
C17_FailureRecovers ==
  (inv.op = "catch" /\ inv.live /\ inv.pilot) ~>
    (\/ (inv.op = "captureAndAnalyze" /\ inv.captured)
     \/ ~isLive
     \/ ~isAutoPilotRef
     \/ LoopsAtBound)

\* C17 witness: the backoff timer fired while the retry countdown was still
\* above zero, and the invocation acquired frame A.
C17_Witness ==
  /\ inv.op = "captureAndAnalyze"
  /\ inv.by = "timer"
  /\ inv.captured
  /\ retryTimer > 0

\* C18: if either frame of the pair is missing, the cycle makes no analysis
\* call, persists no ErrorRecord, does not set busy and starts no retry
\* countdown; it only re-arms itself after 500 ms.
C18_MissingFrameFastRetry ==
  [][(inv'.op = "settle" /\ ~inv'.captured) =>
       /\ analyses' = analyses
       /\ ~inv'.logged
       /\ isAnalyzing' = isAnalyzing
       /\ retryTimer' = retryTimer
       /\ intervals' = intervals
       /\ inv'.armed = 500
       /\ Len(timers') = Len(timers) + 1
       /\ timerRef' = Len(timers')]_vars

\* C18 witness: while the stream is shown, a cycle with a frame missing
\* re-armed itself after 500 ms.
C18_Witness ==
  /\ inv.op = "settle"
  /\ ~inv.captured
  /\ inv.armed = 500
  /\ analyses = <<>>
  /\ ~isAnalyzing
  /\ streamHeld

\* C31: stopping is honoured at the next suspension point: a cycle whose
\* settle wait ends after stopLiveAnalysis (live mode is off) makes no
\* analysis call and arms no timer.
C31_StopHonouredAfterSettle ==
  [][(inv'.op = "settle" /\ ~isLive) =>
       (analyses' = analyses /\ timers' = timers /\ timerRef' = timerRef)]_vars

\* C34: while the mode is Idle no scheduler timer is active: an analysis
\* that fails after stopLiveAnalysis (also with a rate-limit error) starts no
\* retry countdown and no reschedule timer, and retryTimer stays 0.
C34_NoTimerWhileIdle ==
  [][(inv'.op = "catch" /\ ~isLive /\ mode = "UPLOAD") =>
       (intervals' = intervals /\ timers' = timers /\ retryTimer' = 0)]_vars

----------------------------------------------------------------------------
(* Claims about the error classification *)

RateLimitTokens == {"429", "quota", "RESOURCE_EXHAUSTED"}
SafetyTokens == {"SAFETY", "harmful"}
NetworkTokens == {"fetch", "network"}

\* The text holds one of the tokens.
Holds(msg, tokens) == \E i \in 1..Len(msg) : msg[i] \in tokens

\* The category and backoff of the first class, in the order RateLimit,
\* Safety, Network, whose token the text holds; Other when it holds none.
FirstMatch(msg) ==
  IF Holds(msg, RateLimitTokens) THEN <<"RateLimit", 25000>>
  ELSE IF Holds(msg, SafetyTokens) THEN <<"Safety", 5000>>
  ELSE IF Holds(msg, NetworkTokens) THEN <<"Network", 8000>>
  ELSE <<"Other", 5000>>

\* C9: error classification is first-match-wins over the failure message:
\* 429, quota or RESOURCE_EXHAUSTED give RateLimit / 25000 ms, otherwise
\* SAFETY or harmful give Safety / 5000 ms, otherwise fetch or network give
\* Network / 8000 ms, otherwise Other / 5000 ms; one category per message.
C9_FirstMatchWins ==
  inv.op = "catch" =>
    /\ <<inv.category, inv.nextDelay>> = FirstMatch(inv.message)
    /\ inv.category \in {"RateLimit", "Safety", "Network", "Other"}

\* C9 witness: a message holding tokens of all three classes was classified.
C9_Witness ==
  /\ inv.op = "catch"
  /\ Holds(inv.message, RateLimitTokens)
  /\ Holds(inv.message, SafetyTokens)
  /\ Holds(inv.message, NetworkTokens)
  /\ inv.category = "RateLimit"

\* A word with the letter case of the token it spells.
Canon(w) ==
  IF w = "Quota" THEN "quota"
  ELSE IF w = "safety" THEN "SAFETY"
  ELSE IF w = "NETWORK" THEN "network"
  ELSE w

\* The text with every word in the letter case of the token it spells.
Normalized(msg) == [i \in 1..Len(msg) |-> Canon(msg[i])]

\* C19: token matching is case-insensitive: changing the letter case of a
\* token occurrence (Quota, NETWORK, safety) changes neither the category
\* nor the backoff, which are those of the normalized text.
C19_CaseInsensitive ==
  inv.op = "catch" =>
    <<inv.category, inv.nextDelay>> = FirstMatch(Normalized(inv.message))

\* The rejection is, in whatever form, a JSON object with an error.message.
Wrapped(e) == e.json /\ e.message # <<>>

\* C20: a failure whose message is a JSON object with an error.message field
\* is classified exactly as its inner error.message text would be, for every
\* form of raw failure (string, Error, structured payload), and the recorded
\* message is the unwrapped text.
C20_JsonUnwrapped ==
  (inv.op = "catch" /\ Wrapped(inv.raw)) =>
    /\ inv.message = inv.raw.message
    /\ inv.category = Category(inv.raw.message)
    /\ inv.nextDelay = NextDelayOf(inv.raw.message)

\* The four failure categories.
Categories == {"RateLimit", "Safety", "Network", "Other"}

\* C21: the failure path never raises: for every raw failure value it persists
\* an ErrorRecord with one of the four categories and clears busy, and a value
\* that cannot be turned into text is category Other with backoff 5000 ms.
C21_ClassificationTotal ==
  inv.op \in {"catch", "catchRaised"} =>
    /\ inv.logged
    /\ inv.category \in Categories
    /\ ~isAnalyzing
    /\ Opaque(inv.raw) => (inv.category = "Other" /\ inv.nextDelay = OtherDelay)

----------------------------------------------------------------------------
(* Claims about the playback *)

\* C5: when a sequence S arrives (attach) the playback index becomes 0 and
\* momentum becomes 1.0, and the engine is Playing iff S is non-empty,
\* whatever the state before and also for an empty S.
C5_AttachResets ==
  played.op = "attach" =>
    /\ currentStepIndex = 0
    /\ momentum = 10
    /\ (isLocallyPlaying <=> played.len > 0)

\* C6: in continuous playback of a freshly attached sequence, momentum
\* after completing the step at index i is min(10 + (i + 1), 20) tenths.
C6_MomentumRamp ==
  (played.advanced /\ uninterrupted) =>
    momentum = (IF 10 + played.from + 1 <= 20 THEN 10 + played.from + 1 ELSE 20)

\* C7: a Tap step with a start point finishes its animation with the
\* pointer exactly at start and pressed = false.
C7_TapEndsAtStart ==
  (played.done /\ played.step.type = "TAP" /\ HasPoint(played.step.coordinates)) =>
    /\ cursorState.x = Whole(played.step.coordinates.x)
    /\ cursorState.y = Whole(played.step.coordinates.y)
    /\ ~cursorState.isDown

\* The index moved by delta and clamped to [0, n - 1].
Clamped(index, delta, n) ==
  IF index + delta < 0 THEN 0
  ELSE IF index + delta > n - 1 THEN n - 1
  ELSE index + delta

\* C10: for a non-empty sequence of length n and any prior index, the
\* finished position n included, stepForward and stepBackward leave the
\* engine Paused and the index in [0, n - 1], equal to the old index +1
\* resp. -1 clamped to that range.
C10_StepClamped ==
  /\ played.op = "stepForward" =>
       /\ ~isLocallyPlaying
       /\ currentStepIndex \in 0..(played.len - 1)
       /\ currentStepIndex = Clamped(played.from, 1, played.len)
  /\ played.op = "stepBackward" =>
       /\ ~isLocallyPlaying
       /\ currentStepIndex \in 0..(played.len - 1)
       /\ currentStepIndex = Clamped(played.from, -1, played.len)

\* C10 witness: stepForward from the finished position index = n.
C10_Witness ==
  /\ played.op = "stepForward"
  /\ played.len = 2
  /\ played.from = played.len
  /\ currentStepIndex = played.len - 1

C22_MomentumResetOnReplace ==
  [][momentum' < momentum => (result' # result \/ seqDirty' # seqDirty)]_vars

\* C23: when the engine has left Playing (here: it is paused before the end
\* of the sequence) a step that playLoop started and that was suspended at a
\* wait performs none of its remaining phases: the end of its wait updates
\* no cursor pose.
C23_AbandonedStepStops ==
  [][(/\ played'.op = "phase"
      /\ played'.owner = "loop"
      /\ ~isLocallyPlaying
      /\ currentStepIndex < Len(Sequence)) => cursorState' = cursorState]_vars

\* C27: togglePlay only flips Playing/Paused: the action itself leaves the
\* playback index and the momentum unchanged, from every state.
C27_ToggleOnlyFlips ==
  [][played'.op = "togglePlay" =>
       /\ isLocallyPlaying' = ~isLocallyPlaying
       /\ currentStepIndex' = currentStepIndex
       /\ momentum' = momentum]_vars

\* togglePlay resumed a finished sequence (index = length).
C27_Witness ==
  /\ played.op = "togglePlay"
  /\ played.from = played.len
  /\ currentStepIndex = Len(Sequence)
  /\ isLocallyPlaying

\* C35: at most one step animation is in progress at any time: no call of
\* animateSingleStep starts while an earlier one is between its first and
\* its last phase.
C35_OneAnimationAtATime == BagCardinality(anims) <= 1

\* C37: in uninterrupted continuous playback each step is animated exactly
\* once: the playback effect starts an animation only in its first run after
\* the attachment, and the later steps are started by the loop after its
\* pause; no step between them, the momentum increment in particular, makes
\* the effect start the step at the same index again.
C37_EachStepOnce ==
  [][(/\ uninterrupted
      /\ uninterrupted'
      /\ played'.op = "effect"
      /\ loopPos' = "anim") => played.op = "attach"]_vars

----------------------------------------------------------------------------
(* Claims about the swipe *)

\* The progress of a swipe elapsed ms after its start: elapsed over
\* durationMs (500 when absent) divided by the speed, at most 1.
SwipeProgress(step, speed, elapsed) ==
  LET total == (IF step.durationMs = 0 THEN 500 ELSE step.durationMs) * 10
  IN IF elapsed * speed >= total THEN [n |-> 1, d |-> 1]
     ELSE [n |-> elapsed * speed, d |-> total]

\* 2t^2 below one half, 1 - 2(1 - t)^2 from there on.
EaseInOut(t) ==
  IF 2 * t.n < t.d
  THEN [n |-> 2 * t.n * t.n, d |-> t.d * t.d]
  ELSE [n |-> t.d * t.d - 2 * (t.d - t.n) * (t.d - t.n), d |-> t.d * t.d]

\* from + (to - from) * e as a fraction in lowest terms.
Between(from, to, e) == Frac(from * e.d + (to - from) * e.n, e.d)

\* C8: during a HumanSwipe the pointer at progress t is at
\* start + (end - start) * ease(t), ease(t) = 2t^2 for t < 0.5 and
\* 1 - 2(1 - t)^2 otherwise; Swipe and Drag use linear progress; in all
\* three kinds the position at t = 1 is exactly end.
C8_SwipePosition ==
  played.op = "frame" =>
    LET step == played.step
        raw == SwipeProgress(step, played.speed, played.elapsed)
        t == Frac(raw.n, raw.d)
        e == IF step.type = "HUMAN_SWIPE" THEN Frac(EaseInOut(t).n, EaseInOut(t).d) ELSE t
    IN /\ cursorState.x = Between(step.coordinates.x, step.endCoordinates.x, e)
       /\ cursorState.y = Between(step.coordinates.y, step.endCoordinates.y, e)
       /\ t = Whole(1) => /\ cursorState.x = Whole(step.endCoordinates.x)
                          /\ cursorState.y = Whole(step.endCoordinates.y)

\* C8 witness: the HumanSwipe from (0,0) to (1000,1000) over 1000 ms at
\* speed 1.0 is at (125,125) after 250 ms.
C8_Witness ==
  /\ played.op = "frame"
  /\ played.step = MkStep("HUMAN_SWIPE", Point(0, 0), Point(1000, 1000), 1000)
  /\ played.speed = 10
  /\ played.elapsed = 250
  /\ cursorState.x = Whole(125)
  /\ cursorState.y = Whole(125)

\* C24: every animated step, of every kind, passes through the Recover pause
\* before its animation is reported complete: an animation ends only at the
\* end of its Recover wait.
C24_RecoverBeforeComplete == played.done => played.op = "recover"

----------------------------------------------------------------------------
(* Claims about steps that lack coordinates and previews that reject *)

\* C25: a Tap step that has no start point performs no press: its animation
\* never enters the press phase.
C25_TapWithoutPointNoPress ==
  \A a \in BagToSet(anims) :
    (a.step.type = "TAP" /\ ~HasPoint(a.step.coordinates)) => a.phase # "press"

\* A swipe, drag or human swipe that lacks its start or its end.
Inert(step) ==
  IsSwipe(step) /\ (~HasPoint(step.coordinates) \/ ~HasPoint(step.endCoordinates))

\* C26: a Swipe, Drag or HumanSwipe step with a missing end or start skips
\* its motion phase: after the Travel to its start, if it has one, it never
\* presses and never moves the cursor, it completes through Recover, and the
\* loop that awaited it advances to the next step and stays Playing.
C26_InertSwipe ==
  /\ [](\A a \in BagToSet(anims) :
          Inert(a.step) => a.phase \in {"travel", "lock", "recover"})
  /\ [][(played'.op \in {"phase", "recover"} /\ Inert(played'.step)) =>
         /\ cursorState'.isDown = cursorState.isDown
         /\ cursorState'.x = cursorState.x
         /\ cursorState'.y = cursorState.y
         /\ played'.done => played'.op = "recover"
         /\ (played'.done /\ Flushed /\ isPlayingRef /\ loopPos = "anim"
               /\ played'.advanced) =>
              /\ currentStepIndex' = currentStepIndex + 1
              /\ loopPos' = "pause"
              /\ isLocallyPlaying']_vars

\* An inert swipe that has a start point completed and the loop advanced.
C26_Witness ==
  /\ played.op = "recover"
  /\ played.step = SwipeNoEnd
  /\ played.advanced
  /\ currentStepIndex = 1
  /\ isLocallyPlaying
  /\ ~cursorState.isDown

\* C28: a preview that rejects during continuous playback is swallowed: the
\* engine stays Playing, and the loop that awaited it advances the index by
\* one and pauses before the next step, as after a preview that returns.
C28_RejectionSwallowed ==
  [][played'.op = "rejected" =>
       /\ isLocallyPlaying' = isLocallyPlaying
       /\ (played'.awaited /\ isPlayingRef) =>
            /\ isLocallyPlaying'
            /\ currentStepIndex' = currentStepIndex + 1
            /\ loopPos' = "pause"]_vars

\* The awaited preview of step 0 rejected and the loop is about to play
\* step 1.
C28_Witness ==
  /\ played.op = "rejected"
  /\ played.awaited
  /\ played.from = 0
  /\ currentStepIndex = 1
  /\ loopPos = "pause"
  /\ isLocallyPlaying

----------------------------------------------------------------------------
(* Claims about the stores *)

\* The positions of getProfiles() that hold a profile of this id.
Found(id) ==
  {i \in 1..Len(getProfiles(userProfiles)) : getProfiles(userProfiles)[i].id = id}

\* C29: after saveProfile(p), getProfiles returns exactly one profile with id
\* p.id and it equals p, for every p, also one whose id is that of a
\* preloaded system profile.
C29_ProfileRoundTrip ==
  saved # NoProfile =>
    /\ Cardinality(Found(saved.id)) = 1
    /\ \A i \in Found(saved.id) : getProfiles(userProfiles)[i] = saved

\* C30: a failure of the log store never fails the caller: when saveLog
\* fails after a successful analysis the cycle is still a success (result
\* delivered, no error shown, no ErrorRecord, next delay 3000 ms), and when
\* saveErrorLog fails the cycle still clears busy and, live with the pilot
\* on, arms the next capture.
C30_LogFailureHarmless ==
  /\ inv.op = "saveLogFailed" =>
       /\ result.present
       /\ error = "none"
       /\ ~inv.logged
       /\ inv.nextDelay = StandardDelay
       /\ ~isAnalyzing
  /\ inv.op = "saveErrorLogFailed" =>
       /\ ~isAnalyzing
       /\ (inv.live /\ inv.pilot) => inv.armed = inv.nextDelay

\* C32: live with the pilot on, the cycle that follows a completed cycle is
\* armed after exactly 3000 ms when the analysis succeeded and after exactly
\* the classified backoff (25000, 8000 or 5000 ms) when it failed, and busy
\* is cleared by then.
C32_NextCycleDelay ==
  (inv.live /\ inv.pilot) =>
    /\ inv.op \in {"triggerAnalysis", "saveLogFailed"} =>
         (inv.armed = StandardDelay /\ ~isAnalyzing)
    /\ inv.op \in {"catch", "catchRaised", "saveErrorLogFailed"} =>
         /\ inv.armed = NextDelayOf(TechnicalMessage(inv.raw))
         /\ inv.armed \in {RateLimitDelay, NetworkDelay, SafetyDelay, OtherDelay}
         /\ ~isAnalyzing

----------------------------------------------------------------------------
(* Claims about the end of the playback *)

\* The engine is Paused at the end of a non-empty sequence.
Finished ==
  /\ Mounted
  /\ Len(Sequence) > 0
  /\ ~isLocallyPlaying
  /\ currentStepIndex = Len(Sequence)

\* The last step was a control of MacroView or a handler of App (an upload,
\* a new analysis result).
Interrupted == played.op \in {"togglePlay", "stepForward", "stepBackward", "none"}

C36_PressReleased ==
  cursorState.isDown => \E a \in BagToSet(anims) : a.phase \in {"press", "swipe"}

----------------------------------------------------------------------------
(* The live loop and the upload of a single image together *)

\* The auto-pilot stays on; the live loop is started, runs its cycles and is
\* stopped, and single images are uploaded at any moment.
NextUpload ==
  \/ (\E screen \in BOOLEAN : StartLive(screen)) /\ UNCHANGED playVars
  \/ (\E i \in 1..MaxStarts : StartAcquired(i)) /\ UNCHANGED playVars
  \/ StopButton /\ UNCHANGED playVars
  \/ (\E i \in 1..MaxTimers : TimerFire(i)) /\ UNCHANGED playVars
  \/ SettleDone /\ UNCHANGED playVars
  \/ (\E i \in 1..MaxAnalyses : \E seq \in SchedSequences : AnalysisSucceed(i, seq)) /\ UNCHANGED playVars
  \/ (\E i \in 1..MaxAnalyses : \E e \in SchedFailures : AnalysisFail(i, e)) /\ UNCHANGED playVars
  \/ Upload /\ UNCHANGED playVars
  \/ UploadRead /\ UNCHANGED playVars

SpecUpload == Init /\ [][NextUpload]_vars

\* An analysis of a single uploaded image ends: it resolves or rejects.
UploadAnalysisEnds ==
  /\ analyses # <<>>
  /\ Head(analyses).images = 1
  /\ Len(analyses') < Len(analyses)

\* C40: an analysis of a single uploaded image never starts the loop: when
\* it ends, with a result or a failure, live mode is off and no capture
\* timer is armed; and handleFileUpload first stops the live loop and
\* leaves none of its timers pending.
C40_UploadNeverStartsLoop ==
  /\ [][UploadAnalysisEnds => (~isLive' /\ mode' = "UPLOAD" /\ timers' = timers)]_vars
  /\ [][Len(uploads') > Len(uploads) =>
         (~isLive' /\ mode' = "UPLOAD" /\ timers' = <<>> /\ intervals' = <<>>)]_vars

\* The stored profiles whose id is that of a system profile.
StoredSystem(stored) == {i \in 1..Len(stored) : stored[i].id \in SystemIds}

\* C39: after any calls of saveProfile and deleteProfile, getProfiles returns
\* every system profile, unchanged and ahead of all user profiles, and no two
\* returned profiles share an id; no call removes what is stored under a
\* system profile's id (deleteProfile with such an id changes nothing).
C39_SystemProfilesKept ==
  /\ [](LET got == getProfiles(userProfiles) IN
         /\ SubSeq(got, 1, Len(SYSTEM_PROFILES)) = SYSTEM_PROFILES
         /\ \A i \in Len(SYSTEM_PROFILES) + 1..Len(got) : got[i].id \notin SystemIds
         /\ \A i, j \in 1..Len(got) : got[i].id = got[j].id => i = j)
  /\ [][\A i \in StoredSystem(userProfiles) :
         \E j \in StoredSystem(userProfiles') :
           userProfiles'[j].id = userProfiles[i].id]_vars

\* A deleteProfile call was the last, with a profile stored under a system
\* id and two user profiles left.
C39_Witness ==
  /\ saved = NoProfile
  /\ StoredSystem(userProfiles) # {}
  /\ Len(getProfiles(userProfiles)) = Len(SYSTEM_PROFILES) + 2

\* The records are those written last, in the order they were written.
NewestLast(stored) ==
  \A i \in 1..Len(stored) : stored[i] = NextSerial(stored) - 1 - (Len(stored) - i)

\* C38: both log stores are bounded to the last 50 entries: each list has at
\* most 50 entries, the newest last, the oldest evicted first.
C38_LogsBounded ==
  /\ Len(logs) <= LogLimit
  /\ Len(errorLogs) <= LogLimit
  /\ NewestLast(logs)
  /\ NewestLast(errorLogs)

====
